---- MODULE Spec2Model ----
(***************************************************************************)
(* Voice-note ingestion pipeline of the Flowise Teams bot (src/index.js,   *)
(* final revision of the file, lines 626-980): attachment classification,  *)
(* Graph token exchange, protected download, ffmpeg transcode streamed     *)
(* into an Azure recognize-once session, Flowise call and reply.           *)
(*                                                                         *)
(* JavaScript strings are sequences of one-character strings, so that      *)
(* endsWith, startsWith, toLowerCase, split, replace and path.extname are  *)
(* computed rather than assumed.  The empty sequence is the empty string   *)
(* and also stands for an absent (undefined) string property: the code     *)
(* only ever reads such properties through || chains or truthiness tests.  *)
(* Message texts built from template literals are sequences of segments:   *)
(* [lit |-> ...] for the fixed wording (emoji and backticks dropped) and   *)
(* one-field records for each interpolated value.                          *)
(***************************************************************************)
EXTENDS Integers, Sequences, FiniteSets, TLC

\* ------------------------------------------------------------------------
\* Bounds
\* ------------------------------------------------------------------------
MaxAtt == 2
MaxChunks == 2
MaxTime == 1

\* ------------------------------------------------------------------------
\* String primitives
\* ------------------------------------------------------------------------
Lower(c) ==
  CASE c = "A" -> "a" [] c = "B" -> "b" [] c = "G" -> "g" [] c = "M" -> "m"
    [] c = "O" -> "o" [] c = "P" -> "p" [] c = "V" -> "v" [] c = "W" -> "w"
    [] OTHER -> c

toLowerCase(s) == [i \in 1..Len(s) |-> Lower(s[i])]

endsWith(s, suf) ==
  /\ Len(s) >= Len(suf)
  /\ SubSeq(s, Len(s) - Len(suf) + 1, Len(s)) = suf

startsWith(s, pre) ==
  /\ Len(s) >= Len(pre)
  /\ SubSeq(s, 1, Len(pre)) = pre

\* JavaScript a || b on strings: the empty (or absent) string is falsy.
OrElse(a, b) == IF a # <<>> THEN a ELSE b

\* Positions of character c in s.
IndicesOf(s, c) == {i \in 1..Len(s) : s[i] = c}

Max(S) == CHOOSE x \in S : \A y \in S : y <= x
Min(S) == CHOOSE x \in S : \A y \in S : x <= y

\* ct.split('/')[1]: the text between the first and the second slash;
\* absent (empty here) when there is no slash.
SplitSlashSecond(s) ==
  LET sl == IndicesOf(s, "/") IN
  IF sl = {} THEN <<>>
  ELSE LET first == Min(sl)
           rest == {i \in sl : i > first}
           stop == IF rest = {} THEN Len(s) + 1 ELSE Min(rest)
       IN SubSeq(s, first + 1, stop - 1)

\* path.extname (posix): from the last dot of the last path component to
\* its end; empty when there is no dot, when the dot is the first character
\* of the component, or when the component is "..".  Trailing slashes are
\* not part of the component.
ExtName(p) ==
  LET nonSlash == {i \in 1..Len(p) : p[i] # "/"} IN
  IF nonSlash = {} THEN <<>>
  ELSE
    LET end == Max(nonSlash)
        slashesBefore == {i \in 1..end : p[i] = "/"}
        startPart == IF slashesBefore = {} THEN 1 ELSE Max(slashesBefore) + 1
        dots == {i \in startPart..end : p[i] = "."}
    IN IF dots = {} THEN <<>>
       ELSE LET startDot == Max(dots) IN
            IF startDot = startPart THEN <<>>
            ELSE IF /\ end = startPart + 1
                    /\ p[startPart] = "."
                    /\ p[end] = "."
                 THEN <<>>
            ELSE SubSeq(p, startDot, end)

\* s.replace('.', ''): removes the first dot.
RemoveFirstDot(s) ==
  LET d == IndicesOf(s, ".") IN
  IF d = {} THEN s
  ELSE SubSeq(s, 1, Min(d) - 1) \o SubSeq(s, Min(d) + 1, Len(s))

\* text.replace(pat, ''): removes the first occurrence of pat.
RemoveFirst(s, pat) ==
  LET occ == {i \in 1..(Len(s) - Len(pat) + 1) :
                 SubSeq(s, i, i + Len(pat) - 1) = pat} IN
  IF pat = <<>> \/ occ = {} THEN s
  ELSE SubSeq(s, 1, Min(occ) - 1) \o SubSeq(s, Min(occ) + Len(pat), Len(s))

\* String.prototype.trim
trim(s) ==
  LET ink == {i \in 1..Len(s) : s[i] # " "} IN
  IF ink = {} THEN <<>> ELSE SubSeq(s, Min(ink), Max(ink))

\* ------------------------------------------------------------------------
\* Attachment classification
\* ------------------------------------------------------------------------
FileCardType ==
  <<"a","p","p","l","i","c","a","t","i","o","n","/","v","n","d",".",
    "m","i","c","r","o","s","o","f","t",".","t","e","a","m","s",".",
    "f","i","l","e",".","d","o","w","n","l","o","a","d",".","i","n","f","o">>

looksLikeAudioFilename_CaseSensitive(name) ==
  \/ endsWith(name, <<".","w","a","v">>)
  \/ endsWith(name, <<".","m","p","3">>)
  \/ endsWith(name, <<".","m","4","a">>)
  \/ endsWith(name, <<".","o","g","g">>)
  \/ endsWith(name, <<".","w","e","b","m">>)
  \/ endsWith(name, <<".","a","a","c">>)
  \/ endsWith(name, <<".","f","l","a","c">>)

looksLikeAudioFilename(name) ==
  LET lower == toLowerCase(name) IN
  \/ endsWith(lower, <<".","w","a","v">>)
  \/ endsWith(lower, <<".","m","p","3">>)
  \/ endsWith(lower, <<".","m","4","a">>)
  \/ endsWith(lower, <<".","o","g","g">>)
  \/ endsWith(lower, <<".","w","e","b","m">>)
  \/ endsWith(lower, <<".","a","a","c">>)
  \/ endsWith(lower, <<".","f","l","a","c">>)

\* The value null returned for an attachment that is not audio.
Null == [null |-> TRUE]

extractAudioInfoFromAttachment_FallbackNameOnly(att) ==
  LET ct == toLowerCase(att.contentType)
      cardName == OrElse(att.name, OrElse(att.cName, <<"a","u","d","i","o">>))
      cardUrl == OrElse(att.cDownloadUrl, att.contentUrl)
      cardFileType == OrElse(att.cFileType, RemoveFirstDot(ExtName(cardName)))
      subtype == OrElse(SplitSlashSecond(ct), <<"w","a","v">>)
      directName == OrElse(att.name, <<"a","u","d","i","o",".">> \o subtype)
      nameGuess == att.name
      anyUrl == OrElse(att.cDownloadUrl, att.contentUrl)
  IN
  IF ct = FileCardType /\ cardUrl # <<>> /\ looksLikeAudioFilename(cardName)
  THEN [source |-> "teams-file-download-info", name |-> cardName,
        fileType |-> cardFileType, contentType |-> ct, url |-> cardUrl]
  ELSE IF startsWith(ct, <<"a","u","d","i","o","/">>) /\ att.contentUrl # <<>>
  THEN [source |-> "direct-audio", name |-> directName,
        fileType |-> subtype, contentType |-> ct, url |-> att.contentUrl]
  ELSE IF looksLikeAudioFilename(nameGuess) /\ anyUrl # <<>>
  THEN [source |-> "filename-audio-fallback", name |-> nameGuess,
        fileType |-> OrElse(RemoveFirstDot(ExtName(nameGuess)), <<"w","a","v">>),
        contentType |-> OrElse(ct, <<"u","n","k","n","o","w","n">>),
        url |-> anyUrl]
  ELSE Null

extractAudioInfoFromAttachment_FallbackFirst(att) ==
  LET ct == toLowerCase(att.contentType)
      cardName == OrElse(att.name, OrElse(att.cName, <<"a","u","d","i","o">>))
      cardUrl == OrElse(att.cDownloadUrl, att.contentUrl)
      cardFileType == OrElse(att.cFileType, RemoveFirstDot(ExtName(cardName)))
      subtype == OrElse(SplitSlashSecond(ct), <<"w","a","v">>)
      directName == OrElse(att.name, <<"a","u","d","i","o",".">> \o subtype)
      nameGuess == OrElse(att.name, att.cName)
      anyUrl == OrElse(att.cDownloadUrl, att.contentUrl)
  IN
  IF ct = FileCardType /\ cardUrl # <<>> /\ looksLikeAudioFilename(cardName)
  THEN [source |-> "teams-file-download-info", name |-> cardName,
        fileType |-> cardFileType, contentType |-> ct, url |-> cardUrl]
  ELSE IF looksLikeAudioFilename(nameGuess) /\ anyUrl # <<>>
  THEN [source |-> "filename-audio-fallback", name |-> nameGuess,
        fileType |-> OrElse(RemoveFirstDot(ExtName(nameGuess)), <<"w","a","v">>),
        contentType |-> OrElse(ct, <<"u","n","k","n","o","w","n">>),
        url |-> anyUrl]
  ELSE IF startsWith(ct, <<"a","u","d","i","o","/">>) /\ att.contentUrl # <<>>
  THEN [source |-> "direct-audio", name |-> directName,
        fileType |-> subtype, contentType |-> ct, url |-> att.contentUrl]
  ELSE Null

\* att: [contentType, name, contentUrl, cName, cDownloadUrl, cFileType],
\* the last three being att.content?.name / .downloadUrl / .fileType.
extractAudioInfoFromAttachment(att) ==
  LET ct == toLowerCase(att.contentType)
      cardName == OrElse(att.name, OrElse(att.cName, <<"a","u","d","i","o">>))
      cardUrl == OrElse(att.cDownloadUrl, att.contentUrl)
      cardFileType == OrElse(att.cFileType, RemoveFirstDot(ExtName(cardName)))
      subtype == OrElse(SplitSlashSecond(ct), <<"w","a","v">>)
      directName == OrElse(att.name, <<"a","u","d","i","o",".">> \o subtype)
      nameGuess == OrElse(att.name, att.cName)
      anyUrl == OrElse(att.cDownloadUrl, att.contentUrl)
  IN
  IF ct = FileCardType /\ cardUrl # <<>> /\ looksLikeAudioFilename(cardName)
  THEN [source |-> "teams-file-download-info", name |-> cardName,
        fileType |-> cardFileType, contentType |-> ct, url |-> cardUrl]
  ELSE IF startsWith(ct, <<"a","u","d","i","o","/">>) /\ att.contentUrl # <<>>
  THEN [source |-> "direct-audio", name |-> directName,
        fileType |-> subtype, contentType |-> ct, url |-> att.contentUrl]
  ELSE IF looksLikeAudioFilename(nameGuess) /\ anyUrl # <<>>
  THEN [source |-> "filename-audio-fallback", name |-> nameGuess,
        fileType |-> OrElse(RemoveFirstDot(ExtName(nameGuess)), <<"w","a","v">>),
        contentType |-> OrElse(ct, <<"u","n","k","n","o","w","n">>),
        url |-> anyUrl]
  ELSE Null

\* ------------------------------------------------------------------------
\* Flowise answer extraction (the response-shape chain of askFlowise)
\* ------------------------------------------------------------------------
\* The catch branch of askFlowise; err: [status, message], status 0 when
\* the request got no response.
FlowiseErrorAnswer(err) ==
  IF err.status # 0
  THEN << [lit |-> "[Flowise error "], [status |-> err.status], [lit |-> "]"] >>
  ELSE << [lit |-> "[Flowise error: "], [errmsg |-> err.message], [lit |-> "]"] >>

\* d: [kind, str, text, answer, result, elems, dataText, dataAnswer] with
\* kind "empty" (null, undefined or ''), "string", "object" or "array";
\* elems is the array (each element [text, answer], or Null for a JSON
\* null); dataText/dataAnswer are d.data?.text / d.data?.answer.
NoFields ==
  [str |-> <<>>, text |-> <<>>, answer |-> <<>>, result |-> <<>>,
   elems |-> <<>>, dataText |-> <<>>, dataAnswer |-> <<>>]

FlowiseAnswer(d) ==
  IF d.kind = "empty" THEN << [lit |-> "[No data from Flowise]"] >>
  ELSE IF d.kind = "string" THEN << [answer |-> d.str] >>
  ELSE IF d.text # <<>> THEN << [answer |-> d.text] >>
  ELSE IF d.answer # <<>> THEN << [answer |-> d.answer] >>
  ELSE IF d.result # <<>> THEN << [answer |-> d.result] >>
  ELSE IF d.kind = "array" /\ Len(d.elems) > 0 /\ d.elems[1] = Null
  THEN \* d[0].text throws a TypeError inside the try block
       FlowiseErrorAnswer([status |-> 0,
                           message |-> "Cannot read properties of null (reading text)"])
  ELSE IF /\ d.kind = "array"
          /\ Len(d.elems) > 0
          /\ OrElse(d.elems[1].text, d.elems[1].answer) # <<>>
  THEN << [answer |-> OrElse(d.elems[1].text, d.elems[1].answer)] >>
  ELSE IF OrElse(d.dataText, d.dataAnswer) # <<>>
  THEN << [answer |-> OrElse(d.dataText, d.dataAnswer)] >>
  ELSE << [lit |-> "[Unrecognized Flowise response] json\n"],
          [json |-> d],
          [lit |-> "\n"] >>


FlowiseNotConfigured ==
  << [lit |-> "[Flowise not configured: set FLOWISE_URL in .env]"] >>

\* ------------------------------------------------------------------------
\* Texts sent to the chat
\* ------------------------------------------------------------------------
NoSpeechAnswer == << [lit |-> "[No speech detected]"] >>

ReplyText_AnswerFirst(t, answer) ==
  << [lit |-> "**Answer:** "] >> \o answer \o
  << [lit |-> "\n\n--\n**Transcript:** "],
     IF t # <<>> THEN [transcript |-> t] ELSE [lit |-> "_<empty>_"] >>

ReplyText(t, answer) ==
  << [lit |-> "**Transcript:** "],
     IF t # <<>> THEN [transcript |-> t] ELSE [lit |-> "_<empty>_"],
     [lit |-> "\n\n--\n**Answer:** "] >> \o answer

FailureText(name) ==
  << [lit |-> "I detected your audio **"],
     [name |-> name],
     [lit |-> "**, but I couldn't transcribe it. Please try a different clip or format."] >>

PleaseSendText == << [lit |-> "Please send a message."] >>

Typing == [type |-> "typing"]
Message(text) == [type |-> "message", text |-> text]

\* ------------------------------------------------------------------------
\* Inputs
\* ------------------------------------------------------------------------
NoAtt ==
  [contentType |-> <<>>, name |-> <<>>, contentUrl |-> <<>>,
   cName |-> <<>>, cDownloadUrl |-> <<>>, cFileType |-> <<>>]

AttachmentPool ==
  { \* Teams file card carrying a voice note
    [NoAtt EXCEPT !.contentType = FileCardType,
                  !.name = <<"a",".","m","4","a">>,
                  !.contentUrl = <<"u","0">>,
                  !.cDownloadUrl = <<"u","1">>,
                  !.cFileType = <<"m","4","a">>],
    \* direct audio without a name
    [NoAtt EXCEPT !.contentType = <<"A","u","d","i","o","/","O","G","G">>,
                  !.contentUrl = <<"u","2">>],
    \* audio recognised by its file name only
    [NoAtt EXCEPT !.name = <<"B",".","M","P","3">>,
                  !.contentUrl = <<"u","3">>],
    \* Teams file card carrying a text file
    [NoAtt EXCEPT !.contentType = FileCardType,
                  !.name = <<"n",".","t","x","t">>,
                  !.contentUrl = <<"u","4">>,
                  !.cDownloadUrl = <<"u","5">>],
    \* audio content type without any direct URL
    [NoAtt EXCEPT !.contentType = <<"a","u","d","i","o","/","w","a","v">>,
                  !.cDownloadUrl = <<"u","6">>] }

AttachmentLists == UNION {[1..n -> AttachmentPool] : n \in 0..MaxAtt}

BotId == "bot"

\* The rest of the activity: text, mention entities, conversation type.
EnvelopePool ==
  { [text |-> <<"h","i">>, entities |-> <<>>, conversationType |-> "personal"],
    [text |-> <<"@","b"," ","h","i">>,
     entities |-> << [type |-> "mention", mentionedId |-> BotId,
                      text |-> <<"@","b">>] >>,
     conversationType |-> "channel"],
    [text |-> <<"@","b">>,
     entities |-> << [type |-> "mention", mentionedId |-> BotId,
                      text |-> <<"@","b">>],
                     [type |-> "mention", mentionedId |-> "user",
                      text |-> <<"@","u">>] >>,
     conversationType |-> "personal"] }

Activities ==
  { [attachments |-> a, text |-> e.text, entities |-> e.entities,
     conversationType |-> e.conversationType, id |-> "m1",
     recipientId |-> BotId] :
    a \in AttachmentLists, e \in EnvelopePool }

\* Outcomes of the token POST: HTTP status, 0 for a timeout.
TokenStatuses == {200, 401, 0}
\* Terminal outcomes of the download GET: HTTP status, 0 for a timeout.
DownloadStatuses == {200, 304, 404, 0}
\* Outcomes of the Flowise POST.
FlowiseStatuses == {200, 500, 0}

FlowisePayloads ==
  { [NoFields EXCEPT !.str = <<"o","k">>] @@ [kind |-> "string"],
    [NoFields EXCEPT !.answer = <<"4","2">>] @@ [kind |-> "object"],
    NoFields @@ [kind |-> "object"] }

\* What recognizeOnceAsync hands to its success callback: a result with a
\* text, or one without any text property when nothing was recognised.
ResultPool ==
  { [reason |-> "NoMatch"],
    [reason |-> "RecognizedSpeech", text |-> <<>>],
    [reason |-> "RecognizedSpeech", text |-> <<"h","e","y">>] }

\* result.text || ''
ResultText(result) ==
  IF "text" \in DOMAIN result /\ result.text # <<>> THEN result.text ELSE <<>>
RecognizerErrors == {"recognizer: connection failed"}

AxiosError(s) ==
  [status |-> s,
   message |-> IF s = 0 THEN "timeout exceeded"
               ELSE "Request failed with status code"]

\* ------------------------------------------------------------------------
\* State of one turn
\* ------------------------------------------------------------------------
VARIABLES
  activity,       \* the inbound activity
  flowiseUrlSet,  \* process.env.FLOWISE_URL is set
  pc,             \* where the onMessage handler is suspended
  audio,          \* audioItems[0], or Null
  sent,           \* activities passed to context.sendActivity, in order
  log,            \* console.log / console.error entries, in order
  tokenCalls,     \* token POSTs issued
  tokenStatus,    \* outcome of the token POST (-1: none yet)
  downloads,      \* download GETs issued: [url, name]
  dlStatus,       \* terminal outcome of the download GET (-1: none yet)
  writeFailed,    \* fs.writeFileSync threw
  files,          \* paths written under /tmp
  savedPath,      \* return value of downloadTeamsProtectedFile
  ff,             \* the ffmpeg child: none, running, errpending, errored, closed
  ffSpawns,       \* spawn calls
  ffExit,         \* exit code reported with 'close' (-1: none)
  pushStream,     \* [created, written, closed, closes, lateWrites]
  recognizer,     \* none, listening, closed
  recogSessions,  \* recognizeOnceAsync calls
  recogOutcome,   \* callback the recognizer invoked: none, success, error
  promise,        \* the transcribeWithAzure promise: none, pending, resolved, rejected
  transcript,     \* value the promise resolved to
  asked,          \* questions passed to askFlowise, in order
  flowiseReqs,    \* Flowise POSTs issued
  flowiseStatus,  \* outcome of the Flowise POST (-1: none yet)
  flowiseAnswer,  \* what askFlowise returned (a segment sequence)
  nextCalls,      \* calls of next()
  probe,          \* a helper applied to one input on its own: [fn, arg, out]
  conc            \* two overlapping invocations sharing /tmp: [clock, inv, disk]

vars ==
  <<activity, flowiseUrlSet, pc, audio, sent, log, tokenCalls, tokenStatus,
    downloads, dlStatus, writeFailed, files, savedPath, ff, ffSpawns, ffExit,
    pushStream, recognizer, recogSessions, recogOutcome, promise, transcript,
    asked, flowiseReqs, flowiseStatus, flowiseAnswer, nextCalls, probe, conc>>

\* what a turn never changes: its inputs, and the state of the stand-alone
\* specifications further down
inputVars == <<activity, flowiseUrlSet, probe, conc>>
fetchVars ==
  <<tokenCalls, tokenStatus, downloads, dlStatus, writeFailed, files, savedPath>>
ffVars == <<ff, ffSpawns, ffExit, pushStream>>
recogVars == <<recognizer, recogSessions, recogOutcome>>
qaVars == <<asked, flowiseReqs, flowiseStatus, flowiseAnswer>>

NoStream ==
  [created |-> FALSE, written |-> 0, closed |-> FALSE, closes |-> 0,
   lateWrites |-> 0]

NoProbe == [fn |-> "none"]
NoConc == [clock |-> 0]

TurnInit ==
  /\ pc = "start"
  /\ audio = Null
  /\ sent = <<>>
  /\ log = <<>>
  /\ tokenCalls = 0
  /\ tokenStatus = -1
  /\ downloads = <<>>
  /\ dlStatus = -1
  /\ writeFailed = FALSE
  /\ files = {}
  /\ savedPath = <<>>
  /\ ff = "none"
  /\ ffSpawns = 0
  /\ ffExit = -1
  /\ pushStream = NoStream
  /\ recognizer = "none"
  /\ recogSessions = 0
  /\ recogOutcome = "none"
  /\ promise = "none"
  /\ transcript = <<>>
  /\ asked = <<>>
  /\ flowiseReqs = 0
  /\ flowiseStatus = -1
  /\ flowiseAnswer = <<>>
  /\ nextCalls = 0

Init ==
  /\ activity \in Activities
  /\ flowiseUrlSet \in BOOLEAN
  /\ TurnInit
  /\ probe = NoProbe
  /\ conc = NoConc

\* ------------------------------------------------------------------------
\* onMessage: classification and dispatch
\* ------------------------------------------------------------------------
AudioItems_KeepUnclassified(attachments) ==
  [i \in 1..Len(attachments) |->
     LET info == extractAudioInfoFromAttachment(attachments[i]) IN
     IF info # Null THEN info
     ELSE [source |-> "unknown", name |-> attachments[i].name,
           fileType |-> <<>>, contentType |-> <<>>,
           url |-> attachments[i].contentUrl]]

AudioItems_Reversed(attachments) ==
  SelectSeq([i \in 1..Len(attachments) |->
               extractAudioInfoFromAttachment(
                 attachments[Len(attachments) + 1 - i])],
            LAMBDA info : info # Null)

\* The audioItems loop: the descriptors of the attachments, in list order.
AudioItems(attachments) ==
  SelectSeq([i \in 1..Len(attachments) |->
               extractAudioInfoFromAttachment(attachments[i])],
            LAMBDA info : info # Null)

\* The mention loop of the text path.
RECURSIVE StripMentions(_, _, _)
StripMentions(text, entities, recipientId) ==
  IF entities = <<>> THEN text
  ELSE LET e == Head(entities)
           t == IF e.type = "mention" /\ e.mentionedId = recipientId
                THEN trim(RemoveFirst(text, e.text))
                ELSE text
       IN StripMentions(t, Tail(entities), recipientId)

MessageText(act) == StripMentions(act.text, act.entities, act.recipientId)

OnMessage ==
  /\ pc = "start"
  /\ LET audioItems == AudioItems(activity.attachments) IN
     IF Len(audioItems) > 0
     THEN /\ audio' = audioItems[1]
          /\ log' = Append(log, [tag |-> "audio-detected", audio |-> audioItems[1]])
          /\ sent' = Append(sent, Typing)
          /\ pc' = "audio_typing"
     ELSE /\ audio' = audio
          /\ log' = log
          /\ IF trim(MessageText(activity)) = <<>>
             THEN /\ sent' = Append(sent, Message(PleaseSendText))
                  /\ pc' = "text_prompt"
             ELSE /\ sent' = Append(sent, Typing)
                  /\ pc' = "text_typing"
  /\ UNCHANGED <<inputVars, fetchVars, ffVars, recogVars, promise, transcript,
                 qaVars, nextCalls>>

\* ------------------------------------------------------------------------
\* The catch block of the audio path
\* ------------------------------------------------------------------------
\* err: what console.error prints (err.response.data || err.message || err).
CatchLog(err) == Append(log, [tag |-> "flow-error", detail |-> err])
CatchSend == Append(sent, Message(FailureText(audio.name)))

\* ------------------------------------------------------------------------
\* downloadTeamsProtectedFile
\* ------------------------------------------------------------------------
TokenOk_Always(s) == TRUE

\* axios default validateStatus of the token POST
TokenOk(s) == s >= 200 /\ s < 300
validateStatus_NoUpperBound(s) == s >= 200

\* validateStatus of the download GET
validateStatus(s) == s >= 200 /\ s < 400

\* typing sent; downloadTeamsProtectedFile calls getGraphAppToken
AudioTypingSent ==
  /\ pc = "audio_typing"
  /\ tokenCalls' = tokenCalls + 1
  /\ pc' = "await_token"
  /\ UNCHANGED <<inputVars, audio, sent, log, tokenStatus, downloads, dlStatus,
                 writeFailed, files, savedPath, ffVars, recogVars, promise,
                 transcript, qaVars, nextCalls>>

TokenResponse_RetryOnce ==
  /\ pc = "await_token"
  /\ \E s \in TokenStatuses :
       /\ tokenStatus' = s
       /\ IF TokenOk(s)
          THEN /\ downloads' = Append(downloads, [url |-> audio.url, name |-> audio.name])
               /\ pc' = "await_download"
               /\ UNCHANGED <<sent, log, tokenCalls>>
          ELSE IF tokenCalls < 2
          THEN /\ tokenCalls' = tokenCalls + 1
               /\ UNCHANGED <<sent, log, downloads, pc>>
          ELSE /\ log' = CatchLog(AxiosError(s))
               /\ sent' = CatchSend
               /\ pc' = "await_failure_sent"
               /\ UNCHANGED <<downloads, tokenCalls>>
  /\ UNCHANGED <<inputVars, audio, dlStatus, writeFailed, files,
                 savedPath, ffVars, recogVars, promise, transcript, qaVars,
                 nextCalls>>

\* the token POST settles; on success the download GET is issued
TokenResponse ==
  /\ pc = "await_token"
  /\ \E s \in TokenStatuses :
       /\ tokenStatus' = s
       /\ IF TokenOk(s)
          THEN /\ downloads' = Append(downloads, [url |-> audio.url, name |-> audio.name])
               /\ pc' = "await_download"
               /\ UNCHANGED <<sent, log>>
          ELSE /\ log' = CatchLog(AxiosError(s))
               /\ sent' = CatchSend
               /\ pc' = "await_failure_sent"
               /\ UNCHANGED downloads
  /\ UNCHANGED <<inputVars, audio, tokenCalls, dlStatus, writeFailed, files,
                 savedPath, ffVars, recogVars, promise, transcript, qaVars,
                 nextCalls>>

RECURSIVE Digits(_)
Digits(n) ==
  LET d == <<"0","1","2","3","4","5","6","7","8","9">>[(n % 10) + 1] IN
  IF n < 10 THEN <<d>> ELSE Append(Digits(n \div 10), d)

SafeChars ==
  {"a","b","c","d","e","f","g","h","i","j","k","l","m","n","o","p","q","r",
   "s","t","u","v","w","x","y","z",
   "A","B","C","D","E","F","G","H","I","J","K","L","M","N","O","P","Q","R",
   "S","T","U","V","W","X","Y","Z",
   "0","1","2","3","4","5","6","7","8","9",".","_","-"}

\* filename.replace(/[^a-zA-Z0-9._-]/g, '_')
Sanitize(s) == [i \in 1..Len(s) |-> IF s[i] \in SafeChars THEN s[i] ELSE "_"]

\* The name given to the saved file, lines 782-786.
StampedName(suggestedName, now) ==
  LET filename == OrElse(suggestedName, <<"a","u","d","i","o",".","w","a","v">>)
      withExt == IF ExtName(filename) = <<>>
                 THEN filename \o <<".","w","a","v">>
                 ELSE filename
  IN Digits(now) \o <<"_">> \o Sanitize(withExt)

FilePath(suggestedName, now) ==
  <<"/","t","m","p","/">> \o StampedName(suggestedName, now)

\* The promise executor of transcribeWithAzure, lines 810-845: everything
\* up to recognizeOnceAsync runs in one go.  spawnOk = FALSE is a child that
\* cannot be launched: spawn still returns, and 'error' is emitted later.
StartTranscribe(spawnOk) ==
  /\ pushStream' = [NoStream EXCEPT !.created = TRUE]
  /\ ff' = IF spawnOk THEN "running" ELSE "errpending"
  /\ ffSpawns' = ffSpawns + 1
  /\ ffExit' = ffExit
  /\ recognizer' = "listening"
  /\ recogSessions' = recogSessions + 1
  /\ recogOutcome' = recogOutcome
  /\ promise' = "pending"

\* the download GET settles; on success the file is written and
\* transcribeWithAzure(savedPath) is entered.  fs.writeFileSync opens the
\* path (creating the file) and then writes: when it throws, the file may
\* already exist (partial), and nothing removes it.
DownloadResponse ==
  /\ pc = "await_download"
  /\ \E s \in DownloadStatuses, now \in 1..MaxTime, writeOk \in BOOLEAN,
        partial \in BOOLEAN, spawnOk \in BOOLEAN :
       /\ dlStatus' = s
       /\ writeFailed' = (validateStatus(s) /\ ~writeOk)
       /\ IF validateStatus(s) /\ writeOk
          THEN LET filePath == FilePath(audio.name, now) IN
               /\ files' = files \cup {filePath}
               /\ savedPath' = filePath
               /\ log' = Append(log, [tag |-> "saved", path |-> filePath])
               /\ StartTranscribe(spawnOk)
               /\ pc' = "await_transcribe"
               /\ sent' = sent
          ELSE /\ log' = CatchLog(IF validateStatus(s)
                                  THEN [status |-> 0, message |-> "write failed"]
                                  ELSE AxiosError(s))
               /\ sent' = CatchSend
               /\ pc' = "await_failure_sent"
               /\ files' = IF validateStatus(s) /\ partial
                           THEN files \cup {FilePath(audio.name, now)}
                           ELSE files
               /\ UNCHANGED <<savedPath, ffVars, recogVars, promise>>
  /\ UNCHANGED <<inputVars, audio, tokenCalls, tokenStatus, downloads,
                 transcript, qaVars, nextCalls>>

\* ------------------------------------------------------------------------
\* transcribeWithAzure: the ffmpeg child
\* ------------------------------------------------------------------------
\* pushStream.write(chunk)
StreamWrite(ps) ==
  IF ps.closed THEN [ps EXCEPT !.lateWrites = @ + 1]
  ELSE [ps EXCEPT !.written = @ + 1]

\* pushStream.close()
StreamClose(ps) == [ps EXCEPT !.closed = TRUE, !.closes = @ + 1]

\* ff.stdout 'data'
FfData ==
  /\ ff = "running"
  /\ pushStream.written + pushStream.lateWrites < MaxChunks
  /\ pushStream' = StreamWrite(pushStream)
  /\ UNCHANGED <<inputVars, pc, audio, sent, log, fetchVars, ff, ffSpawns,
                 ffExit, recogVars, promise, transcript, qaVars, nextCalls>>

FfClose_OnlyOnZero ==
  /\ ff \in {"running", "errored"}
  /\ \E code \in {0, 1} :
       /\ ffExit' = IF ff = "running" THEN code ELSE -2
       /\ pushStream' = IF ff = "running" /\ code = 0
                        THEN StreamClose(pushStream)
                        ELSE pushStream
  /\ ff' = "closed"
  /\ UNCHANGED <<inputVars, pc, audio, sent, log, fetchVars, ffSpawns,
                 recogVars, promise, transcript, qaVars, nextCalls>>

FfClose_RejectOnNonZero ==
  /\ ff \in {"running", "errored"}
  /\ \E code \in {0, 1} :
       /\ ffExit' = IF ff = "running" THEN code ELSE -2
       /\ IF ff = "running" /\ code # 0 /\ promise = "pending"
          THEN /\ promise' = "rejected"
               /\ log' = CatchLog([status |-> 0, message |-> "ffmpeg exited"])
               /\ sent' = CatchSend
               /\ pc' = "await_failure_sent"
          ELSE UNCHANGED <<promise, log, sent, pc>>
  /\ ff' = "closed"
  /\ pushStream' = StreamClose(pushStream)
  /\ UNCHANGED <<inputVars, audio, fetchVars, ffSpawns, recogVars,
                 transcript, qaVars, nextCalls>>

\* ff 'close': the child has ended (or never started) and its stdio is closed
FfClose ==
  /\ ff \in {"running", "errored"}
  /\ \E code \in {0, 1} :
       ffExit' = IF ff = "running" THEN code ELSE -2
  /\ ff' = "closed"
  /\ pushStream' = StreamClose(pushStream)
  /\ UNCHANGED <<inputVars, pc, audio, sent, log, fetchVars, ffSpawns,
                 recogVars, promise, transcript, qaVars, nextCalls>>

\* ff 'error': reject(new Error('ffmpeg failed: ...')); the awaiting handler
\* lands in its catch block
FfError ==
  /\ ff = "errpending"
  /\ ff' = "errored"
  /\ IF promise = "pending"
     THEN /\ promise' = "rejected"
          /\ log' = CatchLog([status |-> 0, message |-> "ffmpeg failed: spawn ENOENT"])
          /\ sent' = CatchSend
          /\ pc' = "await_failure_sent"
     ELSE UNCHANGED <<promise, log, sent, pc>>
  /\ UNCHANGED <<inputVars, audio, fetchVars, ffSpawns, ffExit, pushStream,
                 recogVars, transcript, qaVars, nextCalls>>

\* ------------------------------------------------------------------------
\* transcribeWithAzure: the recognizer callbacks, and what the handler does
\* with the transcript
\* ------------------------------------------------------------------------
\* The reply activity of the text path.
TextReply(answer) ==
  IF activity.conversationType = "channel"
  THEN [type |-> "message", text |-> answer, id |-> activity.id]
  ELSE [type |-> "message", text |-> answer]

\* The activity sent once askFlowise has returned: the transcript reply of
\* the audio path (t is the transcript), or the reply of the text path.
ReplyFor(path, t, answer) ==
  IF path = "audio" THEN Message(ReplyText(t, answer)) ELSE TextReply(answer)

\* askFlowise up to its await; pcWait/pcSent are the handler positions while
\* the POST is in flight and after the reply went out.
AskFlowise(question, pcWait, pcSent, path) ==
  /\ asked' = Append(asked, question)
  /\ IF flowiseUrlSet
     THEN /\ flowiseReqs' = flowiseReqs + 1
          /\ pc' = pcWait
          /\ UNCHANGED <<flowiseStatus, flowiseAnswer, sent>>
     ELSE /\ flowiseAnswer' = FlowiseNotConfigured
          /\ sent' = Append(sent, ReplyFor(path, question, FlowiseNotConfigured))
          /\ pc' = pcSent
          /\ UNCHANGED <<flowiseReqs, flowiseStatus>>

AfterTranscript_AlwaysAsk(t) ==
  /\ transcript' = t
  /\ log' = Append(log, [tag |-> "transcript", text |-> t])
  /\ AskFlowise(t, "await_flowise", "await_reply_sent", "audio")

\* lines 880-889, entered when the promise resolves with t
AfterTranscript(t) ==
  /\ transcript' = t
  /\ log' = Append(log, [tag |-> "transcript", text |-> t])
  /\ IF t # <<>>
     THEN AskFlowise(t, "await_flowise", "await_reply_sent", "audio")
     ELSE /\ flowiseAnswer' = NoSpeechAnswer
          /\ sent' = Append(sent, Message(ReplyText(t, NoSpeechAnswer)))
          /\ pc' = "await_reply_sent"
          /\ UNCHANGED <<asked, flowiseReqs, flowiseStatus>>

RecognizerSuccess_AlwaysContinues ==
  /\ recognizer = "listening"
  /\ ff # "errpending"
  /\ \E result \in ResultPool :
       /\ ResultText(result) # <<>> => pushStream.written > 0
       /\ recognizer' = "closed"
       /\ recogOutcome' = "success"
       /\ promise' = "resolved"
       /\ AfterTranscript(ResultText(result))
  /\ UNCHANGED <<inputVars, audio, fetchVars, ffVars, recogSessions, nextCalls>>

\* success callback of recognizeOnceAsync; it may come while ffmpeg is still
\* writing (recognize-once ends at the first utterance).  A child that failed
\* to launch emits 'error' on the next tick, before any callback of the
\* recognizer.  Text can only be recognised from audio that was written.
RecognizerSuccess ==
  /\ recognizer = "listening"
  /\ ff # "errpending"
  /\ \E result \in ResultPool :
       /\ ResultText(result) # <<>> => pushStream.written > 0
       /\ recognizer' = "closed"
       /\ recogOutcome' = "success"
       /\ IF promise = "pending"
          THEN /\ promise' = "resolved"
               /\ AfterTranscript(ResultText(result))
          ELSE UNCHANGED <<promise, transcript, log, qaVars, sent, pc>>
  /\ UNCHANGED <<inputVars, audio, fetchVars, ffVars, recogSessions, nextCalls>>

RecognizerError_NoReject ==
  /\ recognizer = "listening"
  /\ ff # "errpending"
  /\ recognizer' = "closed"
  /\ recogOutcome' = "error"
  /\ UNCHANGED <<inputVars, pc, audio, sent, log, fetchVars, ffVars,
                 recogSessions, promise, transcript, qaVars, nextCalls>>

\* error callback of recognizeOnceAsync
RecognizerError ==
  /\ recognizer = "listening"
  /\ ff # "errpending"
  /\ \E e \in RecognizerErrors :
       /\ recognizer' = "closed"
       /\ recogOutcome' = "error"
       /\ IF promise = "pending"
          THEN /\ promise' = "rejected"
               /\ log' = CatchLog([status |-> 0, message |-> e])
               /\ sent' = CatchSend
               /\ pc' = "await_failure_sent"
          ELSE UNCHANGED <<promise, log, sent, pc>>
  /\ UNCHANGED <<inputVars, audio, fetchVars, ffVars, recogSessions,
                 transcript, qaVars, nextCalls>>

\* ------------------------------------------------------------------------
\* askFlowise: the POST settles
\* ------------------------------------------------------------------------
\* lines 663-682: the value askFlowise returns, and what it logs
FlowiseSettled(path) ==
  \E s \in FlowiseStatuses :
    /\ flowiseStatus' = s
    /\ IF TokenOk(s)
       THEN \E d \in FlowisePayloads :
              /\ flowiseAnswer' = FlowiseAnswer(d)
              /\ sent' = Append(sent, ReplyFor(path, transcript, FlowiseAnswer(d)))
              /\ log' = log
       ELSE /\ flowiseAnswer' = FlowiseErrorAnswer(AxiosError(s))
            /\ sent' = Append(sent, ReplyFor(path, transcript,
                                          FlowiseErrorAnswer(AxiosError(s))))
            /\ log' = Append(log, [tag |-> "flowise-error", detail |-> AxiosError(s)])

FlowiseResponse ==
  /\ pc = "await_flowise"
  /\ FlowiseSettled("audio")
  /\ pc' = "await_reply_sent"
  /\ UNCHANGED <<inputVars, audio, fetchVars, ffVars, recogVars, promise,
                 transcript, asked, flowiseReqs, nextCalls>>

\* the reply went out: await next()
ReplySent ==
  /\ pc = "await_reply_sent"
  /\ nextCalls' = nextCalls + 1
  /\ pc' = "await_next"
  /\ UNCHANGED <<inputVars, audio, sent, log, fetchVars, ffVars, recogVars,
                 promise, transcript, qaVars>>

\* the failure message went out: await next()
FailureSent ==
  /\ pc = "await_failure_sent"
  /\ nextCalls' = nextCalls + 1
  /\ pc' = "await_next"
  /\ UNCHANGED <<inputVars, audio, sent, log, fetchVars, ffVars, recogVars,
                 promise, transcript, qaVars>>

NextReturned_FallsThrough ==
  /\ pc = "await_next"
  /\ IF audio # Null /\ nextCalls = 1 /\ promise # "none"
     THEN IF trim(MessageText(activity)) = <<>>
          THEN /\ sent' = Append(sent, Message(PleaseSendText))
               /\ pc' = "text_prompt"
          ELSE /\ sent' = Append(sent, Typing)
               /\ pc' = "text_typing"
     ELSE /\ pc' = "done"
          /\ sent' = sent
  /\ UNCHANGED <<inputVars, audio, log, fetchVars, ffVars, recogVars,
                 promise, transcript, qaVars, nextCalls>>

\* next() returned: the handler returns
NextReturned ==
  /\ pc = "await_next"
  /\ pc' = "done"
  /\ UNCHANGED <<inputVars, audio, sent, log, fetchVars, ffVars, recogVars,
                 promise, transcript, qaVars, nextCalls>>

\* ------------------------------------------------------------------------
\* Text path
\* ------------------------------------------------------------------------
\* 'Please send a message.' went out: return
TextPromptSent ==
  /\ pc = "text_prompt"
  /\ pc' = "done"
  /\ UNCHANGED <<inputVars, audio, sent, log, fetchVars, ffVars, recogVars,
                 promise, transcript, qaVars, nextCalls>>

\* typing went out: askFlowise(text)
TextTypingSent ==
  /\ pc = "text_typing"
  /\ AskFlowise(MessageText(activity), "text_await_flowise", "text_reply_sent",
                "text")
  /\ UNCHANGED <<inputVars, audio, log, fetchVars, ffVars, recogVars, promise,
                 transcript, nextCalls>>

TextFlowiseResponse ==
  /\ pc = "text_await_flowise"
  /\ FlowiseSettled("text")
  /\ pc' = "text_reply_sent"
  /\ UNCHANGED <<inputVars, audio, fetchVars, ffVars, recogVars, promise,
                 transcript, asked, flowiseReqs, nextCalls>>

TextReplySent ==
  /\ pc = "text_reply_sent"
  /\ nextCalls' = nextCalls + 1
  /\ pc' = "await_next"
  /\ UNCHANGED <<inputVars, audio, sent, log, fetchVars, ffVars, recogVars,
                 promise, transcript, qaVars>>

\* ------------------------------------------------------------------------
\* Specification
\* ------------------------------------------------------------------------
Next ==
  \/ OnMessage
  \/ AudioTypingSent
  \/ TokenResponse
  \/ DownloadResponse
  \/ FfData
  \/ FfClose
  \/ FfError
  \/ RecognizerSuccess
  \/ RecognizerError
  \/ FlowiseResponse
  \/ ReplySent
  \/ FailureSent
  \/ NextReturned
  \/ TextPromptSent
  \/ TextTypingSent
  \/ TextFlowiseResponse
  \/ TextReplySent

Spec == Init /\ [][Next]_vars

\* ------------------------------------------------------------------------
\* Outcomes the environment produced, read off the recorded state
\* ------------------------------------------------------------------------
TokenFailed == tokenStatus # -1 /\ ~(tokenStatus >= 200 /\ tokenStatus < 300)
DownloadFailed ==
  dlStatus # -1 /\ (~(dlStatus >= 200 /\ dlStatus < 400) \/ writeFailed)
SubprocessError == ff \in {"errpending", "errored"} \/ ffExit = -2
RecognizerFailed == recogOutcome = "error"
FlowiseFailed ==
  flowiseStatus # -1 /\ ~(flowiseStatus >= 200 /\ flowiseStatus < 300)

AudioPath == audio # Null
Terminal == pc = "done"

\* The text messages among the activities sent so far.
Messages == SelectSeq(sent, LAMBDA a : a.type = "message")

\* Segment kinds occurring in a text.
SegmentKinds(text) == UNION {DOMAIN text[i] : i \in 1..Len(text)}

NamesAttachment(text) ==
  \E i \in 1..Len(text) :
    "name" \in DOMAIN text[i] /\ text[i].name = audio.name

\* ------------------------------------------------------------------------
\* Claims
\* ------------------------------------------------------------------------
\* C1: in the audio path a failed stage keeps every later stage from
\* starting: after a failed token exchange no download request exists; after
\* a failed download (rejected status, timeout or failed write) no ffmpeg
\* child was spawned and no recognition session opened; after a subprocess
\* error or a recognizer error askFlowise was never called.
C1_FailureShortCircuits ==
  /\ TokenFailed => downloads = <<>>
  /\ (TokenFailed \/ DownloadFailed) => ffSpawns = 0 /\ recogSessions = 0
  /\ (TokenFailed \/ DownloadFailed \/ SubprocessError \/ RecognizerFailed)
       => asked = <<>> /\ flowiseReqs = 0

C1_Witness ==
  /\ Terminal
  /\ RecognizerFailed
  /\ ffSpawns = 1
  /\ asked = <<>>

\* C2: an audio-path turn in which any stage failed (token, download,
\* subprocess, recognizer or the Flowise call) ends with exactly one text
\* message having been sent, and that message carries the attachment's name.
C2_OneMessageNamingAttachment ==
  (Terminal /\ AudioPath /\
   (TokenFailed \/ DownloadFailed \/ SubprocessError \/ RecognizerFailed
      \/ FlowiseFailed))
    => /\ Len(Messages) = 1
       /\ NamesAttachment(Messages[1].text)

\* C3: no text sent to the chat in the audio path carries the HTTP status or
\* the error message of a failed call.
C3_NoErrorDetailInChat ==
  AudioPath =>
    \A i \in 1..Len(Messages) :
      SegmentKinds(Messages[i].text) \cap {"status", "errmsg"} = {}

\* C4: when ffmpeg cannot be launched, no recognition session is opened or
\* started, and the turn ends with the failure message naming the attachment.
C4_SpawnErrorNeverOpensSession ==
  SubprocessError =>
    /\ recogSessions = 0
    /\ recognizer = "none"
    /\ Terminal => (Len(Messages) = 1 /\ NamesAttachment(Messages[1].text))

\* C5: an empty transcript skips askFlowise and is answered with the fixed
\* no-speech reply; a non-empty transcript is passed to askFlowise as it is.
C5_EmptyTranscriptSkipsQA ==
  promise = "resolved" =>
    IF transcript = <<>>
    THEN /\ asked = <<>>
         /\ flowiseReqs = 0
         /\ Messages = << Message(ReplyText(<<>>, NoSpeechAnswer)) >>
    ELSE asked = << transcript >>

C5_Witness ==
  /\ Terminal
  /\ promise = "resolved"
  /\ transcript = <<>>
  /\ Len(Messages) = 1

\* Positions of the attachments that classify as audio.
AudioPositions ==
  {i \in 1..Len(activity.attachments) :
     extractAudioInfoFromAttachment(activity.attachments[i]) # Null}

\* The descriptor of the first attachment, in list order, that classifies
\* as audio; Null when none does.
RECURSIVE FirstClassified(_)
FirstClassified(attachments) ==
  IF attachments = <<>> THEN Null
  ELSE LET info == extractAudioInfoFromAttachment(Head(attachments)) IN
       IF info # Null THEN info ELSE FirstClassified(Tail(attachments))

FirstAudio == FirstClassified(activity.attachments)

TextPathPositions ==
  {"start", "text_prompt", "text_typing", "text_await_flowise",
   "text_reply_sent", "await_next", "done"}

\* C6: a message none of whose attachments classifies as audio never causes
\* a token exchange, a download, an ffmpeg spawn or a recognition session;
\* the handler stays on the text path.
C6_NoAudioNoPipeline ==
  \/ /\ tokenCalls = 0
     /\ downloads = <<>>
     /\ ffSpawns = 0
     /\ recogSessions = 0
     /\ pc \in TextPathPositions
  \/ \E i \in 1..Len(activity.attachments) :
       extractAudioInfoFromAttachment(activity.attachments[i]) # Null

C6_Witness ==
  /\ Len(activity.attachments) > 0
  /\ AudioPositions = {}
  /\ pc = "text_reply_sent"

\* C7: a message with audio attachments has at most one token exchange,
\* download, spawn and recognition session, exactly one download once the
\* token exchange succeeded, and that download uses the url and name of the
\* first attachment in list order that classifies as audio.
C7_OnlyFirstAudioProcessed ==
  LET first == FirstAudio IN
  first # Null =>
    /\ tokenCalls <= 1 /\ Len(downloads) <= 1
    /\ ffSpawns <= 1 /\ recogSessions <= 1
    /\ (tokenStatus >= 200 /\ tokenStatus < 300) => Len(downloads) = 1
    /\ \A i \in 1..Len(downloads) :
         downloads[i] = [url |-> first.url, name |-> first.name]
    /\ AudioPath => audio = first

C7_Witness ==
  /\ Terminal
  /\ Cardinality(AudioPositions) = 2
  /\ activity.attachments[1] # activity.attachments[2]
  /\ Len(downloads) = 1
  /\ ffSpawns = 1

\* C8: on every exit path of transcribeWithAzure the recognizer has been
\* closed when the promise settles, and it is not open once the turn is over.
C8_SessionClosedOnEveryExit ==
  /\ promise \in {"resolved", "rejected"} => recognizer # "listening"
  /\ Terminal => recognizer # "listening"

\* C9: when the turn is over, the ffmpeg child it spawned has ended and the
\* push stream is closed.
C9_SubprocessReapedAtTerminal ==
  (Terminal /\ ffSpawns > 0) => (ff = "closed" /\ pushStream.closed)

\* C10 as stated: download after the token exchange, spawn after the file is
\* written, the recognizer consumes audio only once ffmpeg has finished, and
\* no two stages are active together.
C10_StagesStrictlySerialized ==
  /\ downloads # <<>> => (tokenStatus >= 200 /\ tokenStatus < 300)
  /\ ffSpawns > 0 => savedPath \in files
  /\ (recognizer = "listening" /\ pushStream.written > 0) => ff = "closed"
  /\ ~(ff = "running" /\ recognizer = "listening")

\* C10 amended: the download is requested only after the token exchange
\* succeeded; ffmpeg is spawned only after the downloaded file was written;
\* the recognition session is opened in the same step as the spawn (so
\* transcoding and recognition overlap); askFlowise is called in the audio
\* path only after the transcription promise resolved.
C10_StagesOrderedWithStreaming ==
  /\ downloads # <<>> => (tokenStatus >= 200 /\ tokenStatus < 300)
  /\ ffSpawns > 0 =>
       /\ savedPath \in files
       /\ dlStatus >= 200 /\ dlStatus < 400
       /\ ~writeFailed
  /\ recogSessions = ffSpawns
  /\ pc = "await_token" => (downloads = <<>> /\ ffSpawns = 0)
  /\ pc = "await_download" => (ffSpawns = 0 /\ asked = <<>>)
  /\ pc = "await_transcribe" => (promise = "pending" /\ asked = <<>>)
  /\ (AudioPath /\ asked # <<>>) => promise = "resolved"

C10_Witness ==
  /\ ff = "running"
  /\ recognizer = "listening"
  /\ pushStream.written > 0
  /\ pc = "await_transcribe"

\* ------------------------------------------------------------------------
\* Two invocations of the audio path that overlap in time.  The handler is
\* re-entrant: a second turn's continuation may run while the first is
\* suspended in an await, and both write under the same /tmp directory.
\* Only the steps that touch the file system are kept: the write at the end
\* of downloadTeamsProtectedFile and ffmpeg opening its -i argument.
\* ------------------------------------------------------------------------
MaxClock == 2
Invocations == {1, 2}

turnVars ==
  <<activity, flowiseUrlSet, pc, audio, sent, log, fetchVars, ffVars,
    recogVars, promise, transcript, qaVars, nextCalls>>

\* names that reach downloadTeamsProtectedFile: those of classified attachments
ConcNames ==
  {extractAudioInfoFromAttachment(a).name :
     a \in {b \in AttachmentPool : extractAudioInfoFromAttachment(b) # Null}}

\* fs.writeFileSync replaces whatever the path held
WriteFile(disk, path, bytes) ==
  {f \in disk : f.path # path} \cup {[path |-> path, bytes |-> bytes]}

InitConc ==
  /\ activity = [attachments |-> <<>>, envelope |-> CHOOSE e \in EnvelopePool : TRUE]
  /\ flowiseUrlSet = TRUE
  /\ TurnInit
  /\ probe = NoProbe
  /\ conc \in
       {[clock |-> 1,
         inv |-> [i \in Invocations |->
                    [name |-> nm[i], phase |-> "fetching", path |-> <<>>,
                     read |-> 0]],
         disk |-> {}] : nm \in [Invocations -> ConcNames]}

\* Date.now() moves on
ConcTick ==
  /\ conc.clock < MaxClock
  /\ conc' = [conc EXCEPT !.clock = @ + 1]
  /\ UNCHANGED <<turnVars, probe>>

\* invocation i: the GET returned; the body is written to the stamped path
\* and ffmpeg is spawned on it
ConcFileSaved(i) ==
  /\ conc.inv[i].phase = "fetching"
  /\ LET filePath == FilePath(conc.inv[i].name, conc.clock) IN
     conc' = [conc EXCEPT !.inv[i].phase = "spawned",
                          !.inv[i].path = filePath,
                          !.disk = WriteFile(@, filePath, i)]
  /\ UNCHANGED <<turnVars, probe>>

\* invocation i: its ffmpeg child opens the input file and reads what is there
ConcFfmpegReads(i) ==
  /\ conc.inv[i].phase = "spawned"
  /\ LET here == {f \in conc.disk : f.path = conc.inv[i].path} IN
     conc' = [conc EXCEPT !.inv[i].phase = "reading",
                          !.inv[i].read = (CHOOSE f \in here : TRUE).bytes]
  /\ UNCHANGED <<turnVars, probe>>

NextConc ==
  \/ ConcTick
  \/ \E i \in Invocations : ConcFileSaved(i)
  \/ \E i \in Invocations : ConcFfmpegReads(i)

SpecConc == InitConc /\ [][NextConc]_vars

\* C11: two overlapping invocations never write the same path, even with the
\* same suggested name in the same millisecond, and no invocation's ffmpeg
\* reads bytes another invocation wrote.
C11_ArtifactPathsDistinct ==
  conc.clock > 0 =>
    /\ \A i, j \in Invocations :
         (i # j /\ conc.inv[i].path # <<>> /\ conc.inv[j].path # <<>>)
           => conc.inv[i].path # conc.inv[j].path
    /\ \A i \in Invocations : conc.inv[i].read \in {0, i}

\* ------------------------------------------------------------------------
\* Helpers applied on their own.  A probe holds one input of one helper;
\* the single step of a probe applies the helper and records what it
\* returned.
\* ------------------------------------------------------------------------
MaxNameLen == 3

NameChars == {"a", ".", "/", " "}

\* every string over NameChars of length up to n
RECURSIVE NamesUpTo(_)
NamesUpTo(n) ==
  IF n = 0 THEN {<<>>}
  ELSE LET shorter == NamesUpTo(n - 1) IN
       shorter \cup {Append(s, c) : s \in shorter, c \in NameChars}

\* inputs of downloadTeamsProtectedFile that decide the file name
StampProbes ==
  {[fn |-> "stamp", arg |-> [name |-> n, now |-> t], out |-> Null,
    done |-> FALSE] : n \in NamesUpTo(MaxNameLen), t \in {1, 10 + MaxTime}}

\* attachments given to extractAudioInfoFromAttachment
ProbeContentTypes ==
  {<<>>, FileCardType,
   <<"a","u","d","i","o","/","o","g","g">>,
   <<"A","u","d","i","o","/","O","G","G">>,
   <<"a","u","d","i","o","/">>,
   <<"a","u","d","i","o","/","a","/","b">>,
   <<"i","m","a","g","e","/","p","n","g">>}

ProbeNames ==
  {<<>>, <<"a",".","m","4","a">>, <<"B",".","M","P","3">>, <<"n",".","t","x","t">>}

ProbeAttachments ==
  {[contentType |-> ct, name |-> n, contentUrl |-> cu, cName |-> cn,
    cDownloadUrl |-> du, cFileType |-> ft] :
     ct \in ProbeContentTypes, n \in ProbeNames,
     cu \in {<<>>, <<"u","0">>}, cn \in {<<>>, <<"c",".","w","a","v">>},
     du \in {<<>>, <<"u","1">>}, ft \in {<<>>, <<"m","4","a">>}}

\* arg is the attachment object handed to the function, given its value
\* at the call
ClassifyProbes ==
  {[fn |-> "classify", arg |-> a, given |-> a, out |-> Null, done |-> FALSE] :
     a \in ProbeAttachments}

AttachmentAfterClassify_FillsName(att) ==
  [att EXCEPT !.name = OrElse(att.name, att.cName)]

\* The attachment object once extractAudioInfoFromAttachment has returned:
\* the function only reads att and att.content, it assigns to neither.
AttachmentAfterClassify(att) == att

ProbeClassify ==
  /\ probe.fn = "classify"
  /\ ~probe.done
  /\ probe' = [probe EXCEPT !.out = [info |-> extractAudioInfoFromAttachment(probe.arg)],
                            !.arg = AttachmentAfterClassify(probe.arg),
                            !.done = TRUE]
  /\ UNCHANGED <<turnVars, conc>>

\* response bodies given to the shape chain of askFlowise
ProbePayloads ==
  {NoFields @@ [kind |-> "empty"],
   [NoFields EXCEPT !.str = <<"o","k">>] @@ [kind |-> "string"]}
  \cup
  {[NoFields EXCEPT !.text = t, !.answer = a, !.result = r,
                    !.dataText = dt, !.dataAnswer = da] @@ [kind |-> "object"] :
     t \in {<<>>, <<"t">>}, a \in {<<>>, <<"a">>}, r \in {<<>>, <<"r">>},
     dt \in {<<>>, <<"d","t">>}, da \in {<<>>, <<"d","a">>}}
  \cup
  {[NoFields EXCEPT !.elems = e] @@ [kind |-> "array"] :
     e \in {<<>>, <<Null>>}
          \cup {<<[text |-> t, answer |-> a]>> :
                  t \in {<<>>, <<"e","t">>}, a \in {<<>>, <<"e","a">>}}
          \cup {<<[text |-> <<>>, answer |-> <<>>],
                  [text |-> <<"x">>, answer |-> <<>>]>>}}

FlowiseProbes ==
  {[fn |-> "answer", arg |-> d, out |-> Null, done |-> FALSE] :
     d \in ProbePayloads}

ProbeFlowiseAnswer ==
  /\ probe.fn = "answer"
  /\ ~probe.done
  /\ probe' = [probe EXCEPT !.out = FlowiseAnswer(probe.arg), !.done = TRUE]
  /\ UNCHANGED <<turnVars, conc>>

ProbeStampedName ==
  /\ probe.fn = "stamp"
  /\ ~probe.done
  /\ probe' = [probe EXCEPT !.out = StampedName(probe.arg.name, probe.arg.now),
                            !.done = TRUE]
  /\ UNCHANGED <<turnVars, conc>>

InitProbe ==
  /\ activity = [attachments |-> <<>>, envelope |-> CHOOSE e \in EnvelopePool : TRUE]
  /\ flowiseUrlSet = TRUE
  /\ TurnInit
  /\ conc = NoConc
  /\ probe \in StampProbes \cup ClassifyProbes \cup FlowiseProbes

NextProbe ==
  \/ ProbeStampedName
  \/ ProbeClassify
  \/ ProbeFlowiseAnswer

SpecProbe == InitProbe /\ [][NextProbe]_vars

\* C12: for every suggested name (empty, without extension, ending in a dot,
\* with path separators or other characters outside [A-Za-z0-9._-]) the file
\* name is "<timestamp>_<sanitized>", the sanitized part has only characters
\* of [A-Za-z0-9._-] and ends in a dot followed by at least one character.
C12_ArtifactNameWellFormed ==
  (probe.fn = "stamp" /\ probe.done) =>
    LET stamp == Digits(probe.arg.now) \o <<"_">>
        out == probe.out
        sanitized == SubSeq(out, Len(stamp) + 1, Len(out))
    IN /\ Len(out) > Len(stamp)
       /\ SubSeq(out, 1, Len(stamp)) = stamp
       /\ \A i \in 1..Len(sanitized) : sanitized[i] \in SafeChars
       /\ \E k \in 1..(Len(sanitized) - 1) : sanitized[k] = "."

\* C13: within one invocation the token exchange, the download, the
\* transcode spawn, the recognition session and the QA call are each
\* attempted at most once; a failed attempt is not repeated.
C13_EachStageAtMostOnce ==
  /\ tokenCalls <= 1
  /\ Len(downloads) <= 1
  /\ ffSpawns <= 1
  /\ recogSessions <= 1
  /\ Len(asked) <= 1
  /\ flowiseReqs <= 1

\* a turn that ended after a failed token exchange, having tried it once
C13_Witness ==
  /\ AudioPath
  /\ Terminal
  /\ TokenFailed
  /\ tokenCalls = 1
  /\ Len(downloads) = 0

\* The segment sequence part occurs in text, starting at position j.
OccursAt(text, part, j) ==
  /\ j + Len(part) - 1 <= Len(text)
  /\ SubSeq(text, j, j + Len(part) - 1) = part

\* C14: an invocation whose transcript is not empty sends exactly one text
\* message; it contains the transcript and, after it, the answer askFlowise
\* returned; nothing is sent to the chat while the QA call is still
\* outstanding.
C14_OneReplyTranscriptThenAnswer ==
  (AudioPath /\ promise = "resolved" /\ transcript # <<>>) =>
    IF pc = "await_flowise"
    THEN Messages = <<>> /\ flowiseStatus = -1
    ELSE /\ Len(Messages) = 1
         /\ flowiseUrlSet => flowiseStatus # -1
         /\ flowiseAnswer # <<>>
         /\ LET text == Messages[1].text IN
            \E i \in 1..Len(text) :
              /\ text[i] = [transcript |-> transcript]
              /\ \E j \in (i + 1)..Len(text) : OccursAt(text, flowiseAnswer, j)

\* a turn that ended after the QA call answered 200 to a non-empty transcript
C14_Witness ==
  /\ AudioPath
  /\ Terminal
  /\ transcript # <<>>
  /\ flowiseStatus = 200
  /\ Len(Messages) = 1
  /\ "answer" \in SegmentKinds(Messages[1].text)

\* ffmpeg was launched, wrote nothing to stdout and exited with a non-zero code
ExitedNonZeroWithoutOutput ==
  ff = "closed" /\ ffExit > 0 /\ pushStream.written = 0

\* C15 (as claimed): when ffmpeg launches but exits non-zero without output,
\* the transcription resolves to the empty string and the user gets the
\* no-speech reply, never the failure message.
C15_NonZeroExitGivesNoSpeechReply ==
  (AudioPath /\ Terminal /\ ExitedNonZeroWithoutOutput) =>
    /\ promise = "resolved"
    /\ transcript = <<>>
    /\ Messages = << Message(ReplyText(<<>>, NoSpeechAnswer)) >>

\* C15 (amended): a non-zero exit without output does not by itself fail the
\* transcription: the stream is closed as after a zero exit, the promise is
\* rejected only if the recognizer reports an error, and if the recognizer
\* calls back with a result the transcription resolves to the empty string,
\* the QA call is skipped and the one message is the no-speech reply.
C15_NonZeroExitLeavesOutcomeToRecognizer ==
  (AudioPath /\ ExitedNonZeroWithoutOutput) =>
    /\ pushStream.closed
    /\ promise = "rejected" => recogOutcome = "error"
    /\ recogOutcome = "none" => promise = "pending"
    /\ recogOutcome = "success" =>
         /\ promise = "resolved"
         /\ transcript = <<>>
         /\ asked = <<>>
         /\ Messages = << Message(ReplyText(<<>>, NoSpeechAnswer)) >>

\* ffmpeg exited 1 without output, the recognizer returned a result, and the
\* turn ended with the no-speech reply
C15_Witness ==
  /\ AudioPath
  /\ Terminal
  /\ ExitedNonZeroWithoutOutput
  /\ recogOutcome = "success"
  /\ Messages = << Message(ReplyText(<<>>, NoSpeechAnswer)) >>

\* C16: the download fails and leaves no file under /tmp when the request
\* times out, the write fails or the terminal status is not 2xx; a file
\* exists only when the terminal status is 2xx.
C16_FileOnlyOn2xx ==
  /\ (dlStatus # -1 /\ (~(dlStatus >= 200 /\ dlStatus < 300) \/ writeFailed))
       => (files = {} /\ savedPath = <<>> /\ ffSpawns = 0)
  /\ files # {} => (dlStatus >= 200 /\ dlStatus < 300)

\* ------------------------------------------------------------------------
\* Progress.  Each network call returns or hits its timeout (20 s for the
\* token POST, 60 s for the download GET and the Flowise POST), each
\* sendActivity and next() returns, a failed spawn emits 'error' on the next
\* tick, and the recognition backend eventually invokes one of its two
\* callbacks.  Nothing is assumed about the ffmpeg child once it runs: it
\* may go on writing, or stay silent, and never close.
\* ------------------------------------------------------------------------
Progress ==
  \/ OnMessage
  \/ AudioTypingSent
  \/ TokenResponse
  \/ DownloadResponse
  \/ FfError
  \/ RecognizerSuccess
  \/ RecognizerError
  \/ FlowiseResponse
  \/ ReplySent
  \/ FailureSent
  \/ NextReturned
  \/ TextPromptSent
  \/ TextTypingSent
  \/ TextFlowiseResponse
  \/ TextReplySent

\* Attachments after the first audio one play no part in the pipeline, so
\* progress is examined for messages with at most LiveMaxAtt attachments.
LiveMaxAtt == 1

InitLive ==
  /\ Init
  /\ Len(activity.attachments) <= LiveMaxAtt

SpecLive == InitLive /\ [][Next]_vars /\ WF_vars(Progress)

\* the handler is past both of its user-visible endings of the audio path:
\* the reply or the failure message has been handed to sendActivity
ReplyOrFailureSent ==
  /\ AudioPath
  /\ pc \in {"await_reply_sent", "await_failure_sent", "await_next", "done"}
  /\ Len(Messages) = 1

\* C17: every invocation that enters the audio path eventually sends its
\* final reply or its failure message and finishes the turn, given that
\* network calls return or time out and the recognizer eventually answers,
\* and even if the ffmpeg child never exits.
C17_AudioPathTerminates ==
  AudioPath ~> (ReplyOrFailureSent /\ Terminal)

\* a turn that ended while its ffmpeg child was still running
C17_Witness ==
  /\ AudioPath
  /\ Terminal
  /\ ReplyOrFailureSent
  /\ ff = "running"
  /\ ~pushStream.closed

\* C18: end-of-audio is signalled when the child's output closes, whatever
\* the exit code: the push stream is closed exactly when ffmpeg has closed,
\* it is closed once, and no chunk is written to it after it was closed.
C18_StreamClosedOnceAtClose ==
  /\ pushStream.closed <=> ff = "closed"
  /\ pushStream.closes = (IF ff = "closed" THEN 1 ELSE 0)
  /\ pushStream.lateWrites = 0
  /\ pushStream.written > 0 => ffSpawns = 1

\* ffmpeg wrote audio, exited with a non-zero code, and the stream was closed
C18_Witness ==
  /\ ff = "closed"
  /\ ffExit = 1
  /\ pushStream.written > 0
  /\ pushStream.closed
  /\ pushStream.closes = 1

\* the extensions of looksLikeAudioFilename
AudioExtensions ==
  {<<".","w","a","v">>, <<".","m","p","3">>, <<".","m","4","a">>,
   <<".","o","g","g">>, <<".","w","e","b","m">>, <<".","a","a","c">>,
   <<".","f","l","a","c">>}

\* name ends, case-insensitively, in one of the audio extensions
HasAudioExtension(name) ==
  \E e \in AudioExtensions : endsWith(toLowerCase(name), e)

Classified == probe.fn = "classify" /\ probe.done

\* C19: an attachment of the file-download-info card type whose name ends
\* (case-insensitively) in an audio extension and that has a download URL is
\* classified as a platform file card, with url = content.downloadUrl, or
\* contentUrl when content.downloadUrl is absent.
C19_FileCardRule ==
  Classified =>
    LET att == probe.arg
        info == probe.out.info
    IN (/\ att.contentType = FileCardType
        /\ HasAudioExtension(att.name)
        /\ (att.cDownloadUrl # <<>> \/ att.contentUrl # <<>>))
       => /\ info # Null
          /\ info.source = "teams-file-download-info"
          /\ info.url = (IF att.cDownloadUrl # <<>> THEN att.cDownloadUrl
                         ELSE att.contentUrl)

\* a file card named in upper case without content.downloadUrl, classified
\* with its contentUrl
C19_Witness ==
  /\ Classified
  /\ probe.arg.contentType = FileCardType
  /\ probe.arg.name = <<"B",".","M","P","3">>
  /\ probe.arg.cDownloadUrl = <<>>
  /\ probe.out.info # Null
  /\ probe.out.info.source = "teams-file-download-info"
  /\ probe.out.info.url = probe.arg.contentUrl

\* the part of s after its first slash
AfterSlash(s) ==
  LET sl == IndicesOf(s, "/") IN
  IF sl = {} THEN <<>> ELSE SubSeq(s, Min(sl) + 1, Len(s))

AudioPrefix == <<"a","u","d","i","o","/">>

\* C20 (as claimed): an attachment whose content type starts with audio/ and
\* that has a contentUrl is classified as direct audio with url = contentUrl,
\* whatever its name; without a name, the descriptor name is "audio." followed
\* by the part of the content type after the slash.
C20_DirectAudioNamedBySubtype ==
  Classified =>
    LET att == probe.arg
        info == probe.out.info
    IN (startsWith(att.contentType, AudioPrefix) /\ att.contentUrl # <<>>)
       => /\ info # Null
          /\ info.source = "direct-audio"
          /\ info.url = att.contentUrl
          /\ att.name = <<>> =>
               info.name = <<"a","u","d","i","o",".">> \o AfterSlash(att.contentType)

\* C20 (amended): an attachment whose content type starts, in any letter
\* case, with audio/ and that has a contentUrl is classified as direct audio
\* with url = contentUrl, whatever its name; a present name is kept; without
\* a name, the descriptor name is "audio." followed by the lower-cased text
\* between the first and the second slash of the content type, or by "wav"
\* when that text is empty.
C20_DirectAudioRule ==
  Classified =>
    LET att == probe.arg
        info == probe.out.info
        ct == toLowerCase(att.contentType)
        rest == AfterSlash(ct)
        more == IndicesOf(rest, "/")
        subtype == IF more = {} THEN rest ELSE SubSeq(rest, 1, Min(more) - 1)
    IN (startsWith(ct, AudioPrefix) /\ att.contentUrl # <<>>)
       => /\ info # Null
          /\ info.source = "direct-audio"
          /\ info.url = att.contentUrl
          /\ att.name # <<>> => info.name = att.name
          /\ att.name = <<>> =>
               info.name = <<"a","u","d","i","o",".">> \o
                           (IF subtype = <<>> THEN <<"w","a","v">> ELSE subtype)

\* an audio/ogg attachment without a name got the name audio.ogg
C20_Witness ==
  /\ Classified
  /\ probe.arg.contentType = <<"a","u","d","i","o","/","o","g","g">>
  /\ probe.arg.name = <<>>
  /\ probe.arg.contentUrl # <<>>
  /\ probe.out.info # Null
  /\ probe.out.info.source = "direct-audio"
  /\ probe.out.info.name = <<"a","u","d","i","o",".","o","g","g">>

\* The three rules as the specification words them, on the attachment alone.
\* The display name is the attachment's name, or content.name without one.
DisplayName(att) == OrElse(att.name, att.cName)
HasAnyUrl(att) == att.cDownloadUrl # <<>> \/ att.contentUrl # <<>>

MatchesFileCardRule(att) ==
  /\ toLowerCase(att.contentType) = FileCardType
  /\ HasAudioExtension(DisplayName(att))
  /\ HasAnyUrl(att)

MatchesDirectAudioRule(att) ==
  /\ startsWith(toLowerCase(att.contentType), AudioPrefix)
  /\ att.contentUrl # <<>>

MatchesFallbackRule(att) ==
  /\ HasAudioExtension(DisplayName(att))
  /\ HasAnyUrl(att)

\* C21: an attachment matching neither the file-card rule nor the
\* direct-audio rule whose display name (its name, or content.name) ends in
\* an audio extension and that has content.downloadUrl or contentUrl is
\* classified with the filename-fallback source kind.
C21_FilenameFallbackRule ==
  Classified =>
    LET att == probe.arg
        info == probe.out.info
    IN (/\ ~MatchesFileCardRule(att)
        /\ ~MatchesDirectAudioRule(att)
        /\ MatchesFallbackRule(att))
       => /\ info # Null
          /\ info.source = "filename-audio-fallback"
          /\ info.url # <<>>

\* an image/png attachment named only by content.name c.wav, reachable only
\* through content.downloadUrl, classified by the fallback
C21_Witness ==
  /\ Classified
  /\ probe.arg.contentType = <<"i","m","a","g","e","/","p","n","g">>
  /\ probe.arg.name = <<>>
  /\ probe.arg.cName = <<"c",".","w","a","v">>
  /\ probe.arg.contentUrl = <<>>
  /\ probe.arg.cDownloadUrl # <<>>
  /\ probe.out.info # Null
  /\ probe.out.info.source = "filename-audio-fallback"

\* C22: an attachment matching none of the three rules (in particular one
\* without any retrievable URL, and one whose content type is neither the
\* file card type nor audio/* and whose name has no audio extension) is
\* classified as none, and the attachment object is left as it was given.
C22_NoRuleGivesNoneAndNoSideEffect ==
  Classified =>
    LET att == probe.given
        info == probe.out.info
        ct == toLowerCase(att.contentType)
    IN /\ (/\ ~MatchesFileCardRule(att)
           /\ ~MatchesDirectAudioRule(att)
           /\ ~MatchesFallbackRule(att)) => info = Null
       /\ ~HasAnyUrl(att) => info = Null
       /\ (/\ ct # FileCardType
           /\ ~startsWith(ct, AudioPrefix)
           /\ ~HasAudioExtension(DisplayName(att))) => info = Null
       /\ probe.arg = probe.given

\* a named attachment with both URLs that no rule accepts
C22_Witness ==
  /\ Classified
  /\ probe.given.contentType = <<"i","m","a","g","e","/","p","n","g">>
  /\ probe.given.name = <<"n",".","t","x","t">>
  /\ probe.given.contentUrl # <<>>
  /\ probe.given.cDownloadUrl # <<>>
  /\ probe.out.info = Null
  /\ probe.arg = probe.given

\* C23: when the download succeeded, the file it created under /tmp has been
\* deleted by the time the turn is over.
C23_WorkingFileDeletedAtTerminal ==
  (AudioPath /\ Terminal /\ savedPath # <<>>) => savedPath \notin files

\* The answer the shape order of the specification selects from payload d,
\* or <<>> when no shape applies: the payload itself when it is a string,
\* then text, answer, result, then text or answer of the first array
\* element, then data.text or data.answer.
ShapeAnswer(d) ==
  IF d.kind = "string" THEN d.str
  ELSE IF d.kind = "empty" THEN <<>>
  ELSE IF d.text # <<>> THEN d.text
  ELSE IF d.answer # <<>> THEN d.answer
  ELSE IF d.result # <<>> THEN d.result
  ELSE IF d.kind = "array" /\ Len(d.elems) > 0 /\ d.elems[1] # Null
          /\ d.elems[1].text # <<>>
  THEN d.elems[1].text
  ELSE IF d.kind = "array" /\ Len(d.elems) > 0 /\ d.elems[1] # Null
          /\ d.elems[1].answer # <<>>
  THEN d.elems[1].answer
  ELSE IF d.dataText # <<>> THEN d.dataText
  ELSE d.dataAnswer

\* C24: for every response payload askFlowise returns the answer of the
\* first applicable shape; a payload no shape applies to yields a message
\* labelled as an unrecognized response that includes the payload; the
\* answer is never empty.  (A response without any body is only required
\* here to give a non-empty answer.)
C24_AnswerByFirstShape ==
  (probe.fn = "answer" /\ probe.done) =>
    LET d == probe.arg
        out == probe.out
    IN /\ out # <<>>
       /\ IF d.kind = "empty" THEN TRUE
          ELSE IF ShapeAnswer(d) # <<>>
          THEN out = << [answer |-> ShapeAnswer(d)] >>
          ELSE /\ out[1] = [lit |-> "[Unrecognized Flowise response] json\n"]
               /\ \E i \in 1..Len(out) : out[i] = [json |-> d]

\* The three events that can settle the transcription promise, as steps.
RecognizerCalledBack == recogOutcome = "none" /\ recogOutcome' # "none"
SubprocessErrorEmitted == ff = "errpending" /\ ff' = "errored"
Settled == promise \in {"resolved", "rejected"}

\* C25: the transcription outcome is decided once, by the first of the
\* recognizer success callback, the recognizer error callback and the
\* subprocess error event; a later one of these events changes neither the
\* outcome nor the transcript, sends nothing and asks the QA service nothing.
C25_OutcomeDecidedOnce ==
  [][/\ (promise = "pending" /\ promise' # "pending") =>
          /\ RecognizerCalledBack \/ SubprocessErrorEmitted
          /\ promise' = "resolved" <=> recogOutcome' = "success"
          /\ promise' = "rejected" <=>
               (SubprocessErrorEmitted \/ recogOutcome' = "error")
     /\ Settled =>
          /\ promise' = promise
          /\ transcript' = transcript
          /\ (RecognizerCalledBack \/ SubprocessErrorEmitted) =>
               /\ sent' = sent
               /\ asked' = asked
               /\ flowiseReqs' = flowiseReqs
               /\ pc' = pc
    ]_vars

\* the spawn failed and rejected the promise, the recognizer called back with
\* a result afterwards, and the turn ended with the one failure message
C25_Witness ==
  /\ AudioPath
  /\ Terminal
  /\ promise = "rejected"
  /\ ffExit = -2 \/ ff = "errored"
  /\ recogOutcome = "success"
  /\ Len(Messages) = 1
  /\ asked = <<>>

\* positions of the handler that only the text path has
TextOnlyPositions ==
  {"text_prompt", "text_typing", "text_await_flowise", "text_reply_sent"}

\* C26: the audio path and the text path exclude each other within a turn.
\* When an attachment classifies as audio the handler takes the audio path
\* and never enters the text path: the only question ever passed to
\* askFlowise is the transcript, never the message text, and the only text
\* messages are the transcript reply and the failure message, whether the
\* pipeline succeeds or fails.  askFlowise is called at most once per turn.
C26_AudioAndTextPathsExclusive ==
  /\ Len(asked) <= 1
  /\ flowiseReqs <= 1
  /\ audio # Null =>
       /\ pc \notin TextOnlyPositions
       /\ \A i \in 1..Len(asked) :
            /\ asked[i] = transcript
            /\ transcript # <<>>
            /\ promise = "resolved"
            /\ asked[i] # MessageText(activity)
       /\ \A i \in 1..Len(Messages) :
            \/ Messages[i] = Message(FailureText(audio.name))
            \/ /\ promise = "resolved"
               /\ Messages[i] = Message(ReplyText(transcript, flowiseAnswer))
  /\ (pc # "start" /\ audio = Null) =>
       /\ FirstAudio = Null
       /\ tokenCalls = 0

\* a message with text and an audio attachment, answered from the transcript
C26_Witness ==
  /\ Terminal
  /\ audio # Null
  /\ MessageText(activity) # <<>>
  /\ asked = <<transcript>>
  /\ transcript # <<>>
  /\ Len(Messages) = 1

====
